---- MODULE Spec2Model ----
(***************************************************************************)
(* tap-csv: the CSVStream class of src/tap_csv/client.py as a state        *)
(* machine.  A path is a tuple of one-character strings, so that           *)
(* str.lower() and str.endswith() are computed and not assumed.  The file  *)
(* system under a stream's configured path is part of the state.  A        *)
(* generator (get_records, with the get_rows generator nested in it) is a  *)
(* process with a position: the interpreter is single-threaded, so while   *)
(* one pull is executing no other call of the client starts.               *)
(***************************************************************************)
EXTENDS Integers, Sequences, FiniteSets, TLC

(***************************************************************************)
(* Bounds of the model.                                                    *)
(***************************************************************************)
\* rows a file holds at most
MaxRows == 3
\* children of the configured directory at most
MaxListing == 2
\* file-system examinations by get_file_paths per stream at most
MaxScans == 2
\* evaluations of the schema property per stream at most
MaxSchemaCalls == 2
\* abandoned row generators awaiting finalization at most
MaxOrphans == 1

(***************************************************************************)
(* Characters and strings.                                                 *)
(***************************************************************************)
\* str.lower() on one character of the alphabet the model's paths use
LowerChar(c) ==
    CASE c = "A" -> "a" [] c = "B" -> "b" [] c = "C" -> "c" [] c = "F" -> "f"
      [] c = "G" -> "g" [] c = "S" -> "s" [] c = "V" -> "v" [] c = "Z" -> "z"
      [] OTHER -> c

\* str.lower()
Lower(str) == [i \in 1..Len(str) |-> LowerChar(str[i])]

\* str.endswith(suffix)
EndsWith(str, suffix) ==
    /\ Len(str) >= Len(suffix)
    /\ SubSeq(str, Len(str) - Len(suffix) + 1, Len(str)) = suffix

\* the elements of a sequence
Range(seq) == {seq[i] : i \in 1..Len(seq)}

\* [f(x) for x in seq if keep(x)], in order
RECURSIVE FilterSeq(_, _)
FilterSeq(seq, keep) ==
    IF seq = <<>> THEN <<>>
    ELSE IF Head(seq) \in keep THEN <<Head(seq)>> \o FilterSeq(Tail(seq), keep)
    ELSE FilterSeq(Tail(seq), keep)

Min(a, b) == IF a <= b THEN a ELSE b

(***************************************************************************)
(* is_valid_filename and the choice of the opener.                         *)
(***************************************************************************)
supported_extensions ==
    << <<".", "c", "s", "v">>,
       <<".", "c", "s", "v", ".", "g", "z">>,
       <<".", "c", "s", "v", ".", "b", "z", "2">>,
       <<".", "c", "s", "v", ".", "x", "z">>,
       <<".", "c", "s", "v", ".", "l", "z", "m", "a">> >>

\* a plausible slip: the path is not lower-cased before the comparison
is_valid_filename_cased(file_path) ==
    \E i \in 1..Len(supported_extensions) :
        EndsWith(file_path, supported_extensions[i])

is_valid_filename(file_path) ==
    \E i \in 1..Len(supported_extensions) :
        EndsWith(Lower(file_path), supported_extensions[i])

\* a plausible slip: the suffix is tested on the path as written
opener_cased(file_path) ==
    IF EndsWith(file_path, <<".", "g", "z">>) THEN "gzip"
    ELSE IF EndsWith(file_path, <<".", "b", "z", "2">>) THEN "bz2"
    ELSE IF \/ EndsWith(file_path, <<".", "x", "z">>)
            \/ EndsWith(file_path, <<".", "l", "z", "m", "a">>) THEN "lzma"
    ELSE "open"

\* get_rows, lines 90-97: gzip.open, bz2.open, lzma.open or the builtin open
opener(file_path) ==
    IF EndsWith(Lower(file_path), <<".", "g", "z">>) THEN "gzip"
    ELSE IF EndsWith(Lower(file_path), <<".", "b", "z", "2">>) THEN "bz2"
    ELSE IF \/ EndsWith(Lower(file_path), <<".", "x", "z">>)
            \/ EndsWith(Lower(file_path), <<".", "l", "z", "m", "a">>) THEN "lzma"
    ELSE "open"

(***************************************************************************)
(* The names the model's file systems draw from.                           *)
(***************************************************************************)
n_a_csv == <<"a", ".", "c", "s", "v">>
n_B_CSV_GZ == <<"B", ".", "C", "S", "V", ".", "G", "Z">>
n_c_csv_bz2 == <<"c", ".", "c", "s", "v", ".", "b", "z", "2">>
n_d_csv_xz == <<"d", ".", "c", "s", "v", ".", "x", "z">>
n_e_csv_lzma == <<"e", ".", "c", "s", "v", ".", "l", "z", "m", "a">>
n_readme_txt == <<"r", ".", "t", "x", "t">>
n_f_gz == <<"f", ".", "g", "z">>
n_csv == <<"c", "s", "v">>

FileNames ==
    {n_a_csv, n_B_CSV_GZ, n_c_csv_bz2, n_d_csv_xz, n_e_csv_lzma,
     n_readme_txt, n_f_gz, n_csv}

\* the names the changing file system of SpecFS draws from
FsNames == {n_a_csv, n_B_CSV_GZ, n_readme_txt}

p_dir == <<"d">>
p_dir_slash == <<"d", "/">>
p_FILE_CSV == <<"F", ".", "C", "S", "V">>
p_file_txt == <<"f", ".", "t", "x", "t">>
p_dir2 == <<"e">>

\* the sequences of distinct elements of S of length at most n
RECURSIVE DistinctSeqs(_, _)
DistinctSeqs(S, n) ==
    IF n = 0 THEN {<<>>}
    ELSE LET shorter == DistinctSeqs(S, n - 1)
         IN  shorter \cup
             {Append(q, x) : <<q, x>> \in
                 {<<q, x>> \in shorter \X S : Len(q) = n - 1 /\ x \notin Range(q)}}

(***************************************************************************)
(* Rows, records and schema fields.                                        *)
(***************************************************************************)
\* the rows csv.reader may produce from a.csv: a blank line (csv.reader gives
\* [] for it), a row of two different fields, a row of one field twice
Rows == {<<>>, <<"a", "b">>, <<"b", "b">>}

\* a plausible slip: the first of two equal header names wins
DictZipFirst(hdr, row) ==
    LET m == Min(Len(hdr), Len(row))
    IN  [k \in {hdr[i] : i \in 1..m} |->
            row[CHOOSE i \in 1..m : hdr[i] = k /\ \A j \in 1..(i - 1) : hdr[j] # k]]

\* dict(zip(headers, row)): zip stops at the shorter argument, and dict keeps
\* the value of the last pair that has a given key
DictZip(hdr, row) ==
    LET m == Min(Len(hdr), Len(row))
    IN  [k \in {hdr[i] : i \in 1..m} |->
            row[CHOOSE i \in 1..m : hdr[i] = k /\ \A j \in (i + 1)..m : hdr[j] # k]]

\* lines 120-123: one th.Property(column, th.StringType()) per column
HeaderProperties(header) ==
    [i \in 1..Len(header) |-> [name |-> header[i], type |-> "string"]]

\* a plausible slip: the properties are returned as the list they were built as
ToDictList(properties) == properties

\* th.PropertiesList(*properties).to_dict(): the "properties" object of the JSON
\* schema is a dict keyed by property name, in insertion order; a name met again
\* replaces the value and keeps the place of its first occurrence
RECURSIVE ToDict(_)
ToDict(properties) ==
    IF properties = <<>> THEN <<>>
    ELSE LET n == Len(properties)
             init == ToDict(SubSeq(properties, 1, n - 1))
             last == properties[n]
         IN  IF \E i \in 1..Len(init) : init[i].name = last.name
             THEN [i \in 1..Len(init) |->
                      IF init[i].name = last.name THEN last ELSE init[i]]
             ELSE Append(init, last)

(***************************************************************************)
(* State.                                                                  *)
(***************************************************************************)
VARIABLES
    file_config,    \* [stream -> [path, has_keys, keys]]: self.file_config
    fs,             \* [stream -> [kind, listing]]: what is at the configured path
    content,        \* [path -> [rows, end]]: what reading the file at a path yields
    cls_file_paths, \* the class attribute CSVStream.file_paths
    file_paths,     \* [stream -> [set, val]]: the instance attribute self.file_paths
    primary_keys,   \* [stream -> [set, val]]: self.primary_keys
    res,            \* [stream -> what the last get_file_paths did and gave]
    nScans,         \* [stream -> times get_file_paths examined the file system]
    nResolved,      \* [stream -> times get_file_paths assigned self.file_paths]
    pkWrites,       \* [stream -> times schema assigned self.primary_keys]
    sch,            \* [stream -> what the last evaluation of schema did and gave]
    gens,           \* [generator -> the frame of a get_records generator]
    orphans         \* abandoned, suspended get_rows generators not yet finalized

vars ==
    <<file_config, fs, content, cls_file_paths, file_paths, primary_keys, res,
      nScans, nResolved, pkWrites, sch, gens, orphans>>

Streams == {"A", "B"}
GenIds == {1, 2}

Active == DOMAIN file_config

\* attribute lookup self.file_paths: the instance's, else the class's
SelfFilePaths(s) ==
    IF file_paths[s].set THEN file_paths[s].val ELSE cls_file_paths

\* os.path.normpath on the paths of the model: trailing separators go
RECURSIVE normpath(_)
normpath(path) ==
    IF Len(path) > 1 /\ path[Len(path)] = "/"
    THEN normpath(SubSeq(path, 1, Len(path) - 1))
    ELSE path

\* line 56
clean_file_path(path) == normpath(path) \o <<"/">>

\* the candidates of lines 55-63, in the order the code meets them
Candidates(s) ==
    IF fs[s].kind = "dir"
    THEN [i \in 1..Len(fs[s].listing) |->
             clean_file_path(file_config[s].path) \o fs[s].listing[i]]
    ELSE <<file_config[s].path>>

\* whether open(path) finds a file
Exists(s, path) ==
    CASE fs[s].kind = "dir" -> \E i \in 1..Len(Candidates(s)) : Candidates(s)[i] = path
      [] fs[s].kind = "file" -> path = file_config[s].path
      [] OTHER -> FALSE

\* every path a file of a stream may have
PathsOf(path) == {path} \cup {clean_file_path(path) \o n : n \in FileNames}

(***************************************************************************)
(* get_file_paths.                                                         *)
(***************************************************************************)
\* a plausible slip: the cache is never consulted
CacheNever(cached) == FALSE

\* line 47: if self.file_paths
CacheHit(cached) == cached # <<>>

\* a plausible slip: the existence check is left out
PathExistsAlways(kind) == TRUE

\* line 51: os.path.exists(file_path)
PathExists(kind) == kind # "missing"

\* what a call of get_file_paths does: status, the list returned, the paths
\* warned about (lower-cased, as line 82 logs them), whether the file system was
\* examined and whether self.file_paths is assigned
get_file_paths(s) ==
    IF CacheHit(SelfFilePaths(s))
    THEN [status |-> "ok", ret |-> SelfFilePaths(s), warned |-> <<>>,
          scanned |-> FALSE, store |-> FALSE]
    ELSE IF ~PathExists(fs[s].kind)
    THEN [status |-> "no_path", ret |-> <<>>, warned |-> <<>>,
          scanned |-> TRUE, store |-> FALSE]
    ELSE LET cands == Candidates(s)
             valid == {c \in Range(cands) : is_valid_filename(c)}
             found == FilterSeq(cands, valid)
             rejected == FilterSeq(cands, Range(cands) \ valid)
             warned == [i \in 1..Len(rejected) |-> Lower(rejected[i])]
         IN  IF found = <<>>
             THEN [status |-> "no_files", ret |-> <<>>, warned |-> warned,
                   scanned |-> TRUE, store |-> FALSE]
             ELSE [status |-> "ok", ret |-> found, warned |-> warned,
                   scanned |-> TRUE, store |-> TRUE]

\* the client gives up examining the file system after MaxScans examinations
MayResolve(s) == CacheHit(SelfFilePaths(s)) \/ nScans[s] < MaxScans

\* a plausible slip: the list found is kept in the class attribute (as
\* self.file_paths.extend(...) or CSVStream.file_paths = ... would)
ResolvedShared(s, r) ==
    /\ cls_file_paths' = IF r.store THEN r.ret ELSE cls_file_paths
    /\ res' = [res EXCEPT ![s] =
                  [status |-> r.status, ret |-> r.ret, warned |-> r.warned,
                   scanned |-> r.scanned]]
    /\ nScans' = [nScans EXCEPT ![s] = IF r.scanned THEN @ + 1 ELSE @]
    /\ nResolved' = [nResolved EXCEPT ![s] = IF r.store THEN @ + 1 ELSE @]
    /\ UNCHANGED file_paths

\* a plausible slip: line 70 is moved before the check of line 65, so the
\* list found is assigned even when it is empty
ResolvedEarly(s, r) ==
    /\ file_paths' =
          IF r.scanned /\ r.status # "no_path"
          THEN [file_paths EXCEPT ![s] = [set |-> TRUE, val |-> r.ret]]
          ELSE file_paths
    /\ res' = [res EXCEPT ![s] =
                  [status |-> r.status, ret |-> r.ret, warned |-> r.warned,
                   scanned |-> r.scanned]]
    /\ nScans' = [nScans EXCEPT ![s] = IF r.scanned THEN @ + 1 ELSE @]
    /\ nResolved' = [nResolved EXCEPT ![s] = IF r.store THEN @ + 1 ELSE @]
    /\ UNCHANGED cls_file_paths

\* the effect of the call whose outcome is r
Resolved(s, r) ==
    /\ file_paths' =
          IF r.store THEN [file_paths EXCEPT ![s] = [set |-> TRUE, val |-> r.ret]]
          ELSE file_paths
    /\ res' = [res EXCEPT ![s] =
                  [status |-> r.status, ret |-> r.ret, warned |-> r.warned,
                   scanned |-> r.scanned]]
    /\ nScans' = [nScans EXCEPT ![s] = IF r.scanned THEN @ + 1 ELSE @]
    /\ nResolved' = [nResolved EXCEPT ![s] = IF r.store THEN @ + 1 ELSE @]
    /\ UNCHANGED cls_file_paths

\* no pull of a generator is executing
Idle == \A g \in GenIds : gens[g].pc \notin {"run_files", "run_rows"}

\* a direct call of get_file_paths
CallGetFilePaths(s) ==
    /\ Idle
    /\ MayResolve(s)
    /\ Resolved(s, get_file_paths(s))
    /\ UNCHANGED <<file_config, fs, content, primary_keys, pkWrites, sch, gens, orphans>>

(***************************************************************************)
(* Reading a file.  What a file holds is fixed but not known before it is  *)
(* read: the model decides a row the first time a reader reaches it, and   *)
(* every later reader of the same path is given the same row.  A file ends *)
(* with the end of its rows ("eof") or with a row the decoder or the csv   *)
(* reader fails on ("error").                                              *)
(***************************************************************************)
\* the container the bytes of the model's files are framed in
Container(path) ==
    CASE EndsWith(path, n_B_CSV_GZ) -> "gzip"
      [] EndsWith(path, n_f_gz) -> "gzip"
      [] EndsWith(path, n_c_csv_bz2) -> "bz2"
      [] EndsWith(path, n_d_csv_xz) -> "xz"
      [] EndsWith(path, n_e_csv_lzma) -> "lzma"
      [] OTHER -> "plain"

\* whether the module behind an opener decodes a container; lzma.open reads
\* both the .xz and the legacy .lzma container
Decodes(op, container) ==
    \/ op = "open" /\ container = "plain"
    \/ op = "gzip" /\ container = "gzip"
    \/ op = "bz2" /\ container = "bz2"
    \/ op = "lzma" /\ container \in {"xz", "lzma"}

\* the rows the file at a path may hold: those of Rows for a.csv, and for
\* every other file a row of one field and a row of two.  Between them the
\* files hold blank rows, headers that repeat a name, headers of two files
\* that share no name, and rows shorter and longer than their header.
RowsAt(path) ==
    IF EndsWith(path, n_a_csv) THEN Rows ELSE {<<"a">>, <<"b", "b">>}

Unread == [rows |-> <<>>, end |-> "open"]

\* a file of one header row and one data row
PlainFile == [rows |-> << <<"a", "b">>, <<"b", "a">> >>, end |-> "eof"]

\* line 101: what next(reader) gives a reader that has read ri rows of path
\* through opener op, and what is known of the file afterwards
ReadOutcomes(path, ri, op) ==
    LET c == content[path]
    IN  IF ~Decodes(op, Container(path))
        THEN {[kind |-> "error", row |-> <<>>, cont |-> c]}
        ELSE IF ri < Len(c.rows)
        THEN {[kind |-> "row", row |-> c.rows[ri + 1], cont |-> c]}
        ELSE IF c.end # "open"
        THEN {[kind |-> c.end, row |-> <<>>, cont |-> c]}
        ELSE {[kind |-> "row", row |-> r,
               cont |-> [rows |-> Append(c.rows, r), end |-> "open"]] :
                  r \in IF Len(c.rows) < MaxRows THEN RowsAt(path) ELSE {}}
             \cup {[kind |-> e, row |-> <<>>, cont |-> [c EXCEPT !.end = e]] :
                      e \in {"eof", "error"}}

(***************************************************************************)
(* schema.                                                                 *)
(***************************************************************************)
\* lines 114-124 once get_file_paths has given r: what the evaluation does and
\* gives, what is known of the first file afterwards, and whether the suspended
\* get_rows generator the break leaves behind still holds its handle (left: 1).
\* When that generator is finalized is the interpreter's choice: at the break
\* when it counts references, at some later collection otherwise.
SchemaOutcomes(s, r) ==
    IF r.status # "ok"
    THEN {[result |-> r.status, opened |-> <<>>, pulls |-> 0, fields |-> <<>>,
           path |-> <<>>, cont |-> Unread, left |-> 0]}
    ELSE LET path == r.ret[1]
         IN  IF ~Exists(s, path)
             THEN {[result |-> "open_error", opened |-> <<path>>, pulls |-> 0,
                    fields |-> <<>>, path |-> path, cont |-> content[path],
                    left |-> 0]}
             ELSE UNION {
                    IF o.kind = "row"
                    THEN {[result |-> "ok", opened |-> <<path>>, pulls |-> 1,
                           fields |-> ToDict(HeaderProperties(o.row)),
                           path |-> path, cont |-> o.cont, left |-> l] :
                              l \in IF orphans < MaxOrphans THEN {0, 1} ELSE {0}}
                    ELSE {[result |-> IF o.kind = "eof" THEN "unbound_header"
                                      ELSE "read_error",
                           opened |-> <<path>>, pulls |-> 1, fields |-> <<>>,
                           path |-> path, cont |-> o.cont, left |-> 0]} :
                    o \in ReadOutcomes(path, 0, opener(path))}

\* a plausible slip: the key is misspelt, so the default is always taken
ConfiguredKeysMisspelt(s) == <<>>

\* line 112
ConfiguredKeys(s) ==
    IF file_config[s].has_keys THEN file_config[s].keys ELSE <<>>

\* an evaluation of the schema property
CallSchema(s) ==
    /\ Idle
    /\ MayResolve(s)
    /\ pkWrites[s] < MaxSchemaCalls
    /\ primary_keys' = [primary_keys EXCEPT ![s] = [set |-> TRUE, val |-> ConfiguredKeys(s)]]
    /\ pkWrites' = [pkWrites EXCEPT ![s] = @ + 1]
    /\ LET r == get_file_paths(s)
       IN  /\ Resolved(s, r)
           /\ \E o \in SchemaOutcomes(s, r) :
                /\ sch' = [sch EXCEPT ![s] =
                              [result |-> o.result, opened |-> o.opened,
                               pulls |-> o.pulls, fields |-> o.fields]]
                /\ content' = IF o.path = <<>> THEN content
                              ELSE [content EXCEPT ![o.path] = o.cont]
                /\ orphans' = orphans + o.left
    /\ UNCHANGED <<file_config, fs, gens>>

\* the interpreter finalizes an abandoned get_rows generator: GeneratorExit is
\* raised at its yield and the with statement of line 99 closes the file
FinalizeOrphan ==
    /\ orphans > 0
    /\ orphans' = orphans - 1
    /\ UNCHANGED <<file_config, fs, content, cls_file_paths, file_paths,
                   primary_keys, res, nScans, nResolved, pkWrites, sch, gens>>

(***************************************************************************)
(* get_records.  The frame of a generator: the stream it belongs to, its   *)
(* position pc, the list the for statement of line 32 iterates, the number *)
(* fi of the file it is at, the rows ri read of it, headers, the files it  *)
(* holds an open handle on, the opener of the last file opened, and out,   *)
(* the records it has yielded (with the file, the row and the headers each *)
(* was built from).                                                        *)
(*   off        no such generator in this run                              *)
(*   unused     not created yet                                            *)
(*   created    get_records was called; no line of its body has run        *)
(*   run_files  executing, at the for statement of line 32                 *)
(*   run_rows   executing, at the for statement of line 101                *)
(*   yielded    suspended at the yield of line 38                          *)
(*   stopped    suspended there, and the consumer pulls no more            *)
(*   done       exhausted                                                  *)
(*   raised     ended by an exception                                      *)
(*   closed     closed or finalized while suspended                        *)
(***************************************************************************)
NoGen ==
    [stream |-> "A", pc |-> "unused", paths |-> <<>>, fi |-> 0, ri |-> 0,
     headers |-> <<>>, open |-> {}, opener |-> "none", out |-> <<>>]

\* a plausible slip: headers is initialized once, before the loop over the files
KeepHeaders(headers) == headers

\* line 33: headers = []
ResetHeaders(headers) == <<>>

\* a plausible slip: the file is not closed when its rows end
LeaveOpen(open, fi) == open

\* leaving the with statement of line 99
CloseHandle(open, fi) == open \ {fi}

\* a plausible slip: a row that fails is skipped and the next file is read
AfterRowsSkip(kind) == "run_files"

\* where the generator is once next(reader) gave no row: at the end of the
\* rows the for statement of line 34 ends and line 32 goes on; an exception
\* of the decoder or of the csv reader is caught nowhere and ends the generator
AfterRows(kind) == IF kind = "eof" THEN "run_files" ELSE "raised"

\* a plausible slip: a sequence that has ended starts over when it is pulled
RestartAfterEnd(f) ==
    [f EXCEPT !.pc = "created", !.paths = <<>>, !.fi = 0, !.ri = 0,
              !.headers = <<>>, !.opener = "none"]

\* the frame of a generator that has ended, after one more next(): the
\* generator has no frame left to run, next() raises StopIteration and
\* nothing of the generator changes
AfterEnd(f) == f

\* line 25: the call creates the generator and runs nothing
GetRecords(s, g) ==
    /\ Idle
    /\ gens[g].pc = "unused"
    /\ \A h \in GenIds : gens[h].pc = "unused" => g <= h
    /\ gens' = [gens EXCEPT ![g] = [NoGen EXCEPT !.stream = s, !.pc = "created"]]
    /\ UNCHANGED <<file_config, fs, content, cls_file_paths, file_paths,
                   primary_keys, res, nScans, nResolved, pkWrites, sch, orphans>>

\* next() on a generator not started: line 32 calls get_file_paths
PullFirst(g) ==
    LET s == gens[g].stream
        r == get_file_paths(s)
    IN  /\ Idle
        /\ gens[g].pc = "created"
        /\ MayResolve(s)
        /\ Resolved(s, r)
        /\ gens' = [gens EXCEPT ![g] =
                       IF r.status = "ok"
                       THEN [@ EXCEPT !.pc = "run_files", !.paths = r.ret]
                       ELSE [@ EXCEPT !.pc = "raised"]]
        /\ UNCHANGED <<file_config, fs, content, primary_keys, pkWrites, sch, orphans>>

\* next() on a generator suspended at line 38: it goes on at line 34
Pull(g) ==
    /\ Idle
    /\ gens[g].pc = "yielded"
    /\ gens' = [gens EXCEPT ![g].pc = "run_rows"]
    /\ UNCHANGED <<file_config, fs, content, cls_file_paths, file_paths,
                   primary_keys, res, nScans, nResolved, pkWrites, sch, orphans>>

\* lines 32-33 and 90-99: the next file of the list, if any, is opened
NextFile(g) ==
    LET f == gens[g]
        path == f.paths[f.fi + 1]
    IN  /\ f.pc = "run_files"
        /\ gens' = [gens EXCEPT ![g] =
                       IF f.fi = Len(f.paths)
                       THEN [f EXCEPT !.pc = "done"]
                       ELSE IF ~Exists(f.stream, path)
                       THEN [f EXCEPT !.pc = "raised", !.fi = f.fi + 1, !.ri = 0,
                                      !.headers = ResetHeaders(f.headers),
                                      !.opener = opener(path)]
                       ELSE [f EXCEPT !.pc = "run_rows", !.fi = f.fi + 1, !.ri = 0,
                                      !.headers = ResetHeaders(f.headers),
                                      !.opener = opener(path),
                                      !.open = f.open \cup {f.fi + 1}]]
        /\ UNCHANGED <<file_config, fs, content, cls_file_paths, file_paths,
                       primary_keys, res, nScans, nResolved, pkWrites, sch, orphans>>

\* lines 34-38 and 101-102: one more row of the file, or the end of its rows
ReadRow(g) ==
    LET f == gens[g]
        path == f.paths[f.fi]
    IN  /\ f.pc = "run_rows"
        /\ \E o \in ReadOutcomes(path, f.ri, f.opener) :
             /\ content' = [content EXCEPT ![path] = o.cont]
             /\ gens' = [gens EXCEPT ![g] =
                   IF o.kind = "row"
                   THEN IF f.headers = <<>>
                        THEN [f EXCEPT !.ri = f.ri + 1, !.headers = o.row]
                        ELSE [f EXCEPT !.ri = f.ri + 1, !.pc = "yielded",
                                !.out = Append(f.out,
                                    [file |-> f.fi, row |-> f.ri + 1,
                                     hdr |-> f.headers,
                                     rec |-> DictZip(f.headers, o.row)])]
                   ELSE [f EXCEPT !.open = CloseHandle(f.open, f.fi),
                                  !.pc = AfterRows(o.kind)]]
        /\ UNCHANGED <<file_config, fs, cls_file_paths, file_paths,
                       primary_keys, res, nScans, nResolved, pkWrites, sch, orphans>>

\* next() on a generator that is exhausted, was ended by an exception, or
\* was closed
PullEnded(g) ==
    /\ Idle
    /\ gens[g].pc \in {"done", "raised", "closed"}
    /\ gens' = [gens EXCEPT ![g] = AfterEnd(@)]
    /\ UNCHANGED <<file_config, fs, content, cls_file_paths, file_paths,
                   primary_keys, res, nScans, nResolved, pkWrites, sch, orphans>>

\* the consumer stops pulling a suspended generator.  The generator stays
\* suspended inside the with statement of line 99 until it is closed or
\* finalized; an interpreter that counts references does that at once when
\* the consumer also drops its last reference (now).
StopPulling(g) ==
    /\ Idle
    /\ gens[g].pc = "yielded"
    /\ \E now \in BOOLEAN :
         gens' = [gens EXCEPT ![g] =
                     IF now
                     THEN [@ EXCEPT !.pc = "closed",
                                    !.open = CloseHandle(@, gens[g].fi)]
                     ELSE [@ EXCEPT !.pc = "stopped"]]
    /\ UNCHANGED <<file_config, fs, content, cls_file_paths, file_paths,
                   primary_keys, res, nScans, nResolved, pkWrites, sch, orphans>>

\* close(), or the finalization, of a generator the consumer has stopped pulling:
\* GeneratorExit is raised at line 38 and then at line 102, and line 99 closes
Finalize(g) ==
    /\ gens[g].pc = "stopped"
    /\ gens' = [gens EXCEPT ![g] =
                   [@ EXCEPT !.pc = "closed", !.open = CloseHandle(@, gens[g].fi)]]
    /\ UNCHANGED <<file_config, fs, content, cls_file_paths, file_paths,
                   primary_keys, res, nScans, nResolved, pkWrites, sch, orphans>>

(***************************************************************************)
(* The file system changing under the stream (other processes).            *)
(***************************************************************************)
\* a file appears in the configured directory, anywhere in its enumeration
FsAdd(s, n, i) ==
    LET l == fs[s].listing
    IN  /\ fs[s].kind = "dir"
        /\ Len(l) < MaxListing
        /\ n \notin Range(l)
        /\ i \in 0..Len(l)
        /\ fs' = [fs EXCEPT ![s].listing =
                     SubSeq(l, 1, i) \o <<n>> \o SubSeq(l, i + 1, Len(l))]
        /\ UNCHANGED <<file_config, content, cls_file_paths, file_paths, primary_keys,
                       res, nScans, nResolved, pkWrites, sch, gens, orphans>>

\* a file of the configured directory is removed
FsRemove(s, i) ==
    LET l == fs[s].listing
    IN  /\ fs[s].kind = "dir"
        /\ i \in 1..Len(l)
        /\ fs' = [fs EXCEPT ![s].listing = SubSeq(l, 1, i - 1) \o SubSeq(l, i + 1, Len(l))]
        /\ UNCHANGED <<file_config, content, cls_file_paths, file_paths, primary_keys,
                       res, nScans, nResolved, pkWrites, sch, gens, orphans>>

\* a file of the configured directory is renamed (every file of a changing
\* file system holds the same rows, so nothing else moves)
FsRename(s, i, n) ==
    LET l == fs[s].listing
    IN  /\ fs[s].kind = "dir"
        /\ i \in 1..Len(l)
        /\ n \notin Range(l)
        /\ fs' = [fs EXCEPT ![s].listing = [l EXCEPT ![i] = n]]
        /\ UNCHANGED <<file_config, content, cls_file_paths, file_paths, primary_keys,
                       res, nScans, nResolved, pkWrites, sch, gens, orphans>>

\* the configured path is removed with all it holds
FsRemovePath(s) ==
    /\ fs[s].kind # "missing"
    /\ fs' = [fs EXCEPT ![s] = [kind |-> "missing", listing |-> <<>>]]
    /\ UNCHANGED <<file_config, content, cls_file_paths, file_paths, primary_keys,
                   res, nScans, nResolved, pkWrites, sch, gens, orphans>>

\* the configured path comes to exist, as an empty directory or as a file
FsCreatePath(s, kind) ==
    /\ fs[s].kind = "missing"
    /\ fs' = [fs EXCEPT ![s] = [kind |-> kind, listing |-> <<>>]]
    /\ UNCHANGED <<file_config, content, cls_file_paths, file_paths, primary_keys,
                   res, nScans, nResolved, pkWrites, sch, gens, orphans>>

(***************************************************************************)
(* Specifications.                                                         *)
(***************************************************************************)
\* the state after construction of the streams of cfg, over file system f,
\* with files whose rows are c, and with the generators of G to be created
Constructed(cfg, f, c, G) ==
    /\ file_config = cfg
    /\ fs = f
    /\ content = c
    /\ cls_file_paths = <<>>
    /\ file_paths = [s \in DOMAIN cfg |-> [set |-> FALSE, val |-> <<>>]]
    /\ primary_keys = [s \in DOMAIN cfg |-> [set |-> FALSE, val |-> <<>>]]
    /\ res = [s \in DOMAIN cfg |->
                 [status |-> "none", ret |-> <<>>, warned |-> <<>>, scanned |-> FALSE]]
    /\ nScans = [s \in DOMAIN cfg |-> 0]
    /\ nResolved = [s \in DOMAIN cfg |-> 0]
    /\ pkWrites = [s \in DOMAIN cfg |-> 0]
    /\ sch = [s \in DOMAIN cfg |->
                 [result |-> "none", opened |-> <<>>, pulls |-> 0, fields |-> <<>>]]
    /\ gens = [g \in GenIds |-> IF g \in G THEN NoGen ELSE [NoGen EXCEPT !.pc = "off"]]
    /\ orphans = 0

\* the directories whose files the reading specification reads row by row
ReadListings ==
    { <<n_a_csv, n_B_CSV_GZ>>, <<n_readme_txt, n_c_csv_bz2>> }

\* one stream over a directory of files of any rows
InitRead ==
    \E l \in ReadListings :
        Constructed([s \in {"A"} |-> [path |-> p_dir, has_keys |-> TRUE, keys |-> <<"a">>]],
                    [s \in {"A"} |-> [kind |-> "dir", listing |-> l]],
                    [p \in PathsOf(p_dir) |-> Unread],
                    {1})

\* a configured path and what is at it
ConfiguredAs ==
    { <<p_dir, "dir">>, <<p_dir_slash, "dir">>, <<p_FILE_CSV, "file">>,
      <<p_file_txt, "file">>, <<p_dir, "missing">>, <<p_FILE_CSV, "missing">> }

\* one stream over any configured path: missing, a file, or a directory of
\* any children; every file holds a header row and a data row
InitDir ==
    \E c \in ConfiguredAs :
       \E l \in IF c[2] = "dir" THEN DistinctSeqs(FileNames, MaxListing) ELSE {<<>>} :
        Constructed([s \in {"A"} |-> [path |-> c[1], has_keys |-> FALSE, keys |-> <<>>]],
                    [s \in {"A"} |-> [kind |-> c[2], listing |-> l]],
                    [p \in PathsOf(c[1]) |-> PlainFile],
                    {1})

Init == InitRead

Next ==
    \/ \E s \in Active : CallGetFilePaths(s)
    \/ \E s \in Active : CallSchema(s)
    \/ FinalizeOrphan
    \/ \E s \in Active, g \in GenIds : GetRecords(s, g)
    \/ \E g \in GenIds : PullFirst(g)
    \/ \E g \in GenIds : Pull(g)
    \/ \E g \in GenIds : PullEnded(g)
    \/ \E g \in GenIds : NextFile(g)
    \/ \E g \in GenIds : ReadRow(g)
    \/ \E g \in GenIds : StopPulling(g)
    \/ \E g \in GenIds : Finalize(g)

\* a directory of files of any rows, which does not change
Spec == Init /\ [][Next]_vars

\* any configured path, which does not change
SpecDir == InitDir /\ [][Next]_vars

\* one stream over a file system that changes
InitFS ==
    \E path \in {p_dir, p_FILE_CSV}, kind \in {"missing", "file", "dir"} :
       \E l \in IF kind = "dir" THEN DistinctSeqs(FsNames, MaxListing) ELSE {<<>>} :
        Constructed([s \in {"A"} |-> [path |-> path, has_keys |-> FALSE, keys |-> <<>>]],
                    [s \in {"A"} |-> [kind |-> kind, listing |-> l]],
                    [p \in PathsOf(path) |-> PlainFile],
                    {1})

\* files of no row, of a header and a row, and of a header and two rows of
\* other lengths, each ending with the end of its rows
FiniteFiles ==
    { [rows |-> <<>>, end |-> "eof"],
      PlainFile,
      [rows |-> << <<"b", "b">>, <<"a">>, <<"a", "b">> >>, end |-> "eof"] }

\* one stream over a directory of two finite files, read by two generators
InitAgain ==
    \E ca, cb \in FiniteFiles :
        Constructed([s \in {"A"} |-> [path |-> p_dir, has_keys |-> FALSE, keys |-> <<>>]],
                    [s \in {"A"} |-> [kind |-> "dir", listing |-> <<n_a_csv, n_B_CSV_GZ>>]],
                    [p \in PathsOf(p_dir) |->
                        IF EndsWith(p, n_a_csv) THEN ca
                        ELSE IF EndsWith(p, n_B_CSV_GZ) THEN cb ELSE PlainFile],
                    {1, 2})

\* a pull that has started runs to its next yield, to the end of the rows or
\* to an exception: the interpreter executes it, nothing else runs meanwhile
RunsOn == \A g \in GenIds : WF_vars(NextFile(g)) /\ WF_vars(ReadRow(g))

\* a consumer that has not stopped pulling a sequence pulls it again
PulledRepeatedly == \A g \in GenIds : SF_vars(PullFirst(g)) /\ SF_vars(Pull(g))

\* two sequences over the same finite files, each pulled repeatedly
SpecAgain == InitAgain /\ [][Next]_vars /\ RunsOn /\ PulledRepeatedly

\* what stream A and stream B of the two-stream specification are over
ListingsA == { <<n_a_csv, n_readme_txt>>, <<n_readme_txt>> }
ConfiguredB ==
    { [path |-> p_dir2, kind |-> "dir", listing |-> <<n_B_CSV_GZ>>],
      [path |-> p_FILE_CSV, kind |-> "file", listing |-> <<>>],
      [path |-> p_dir2, kind |-> "missing", listing |-> <<>>] }

\* two streams with different configured paths, one with keys and one
\* without; every file holds a header row and a data row
InitTwo ==
    \E la \in ListingsA, b \in ConfiguredB :
        Constructed([s \in Streams |->
                        IF s = "A" THEN [path |-> p_dir, has_keys |-> TRUE, keys |-> <<"a">>]
                        ELSE [path |-> b.path, has_keys |-> FALSE, keys |-> <<>>]],
                    [s \in Streams |->
                        IF s = "A" THEN [kind |-> "dir", listing |-> la]
                        ELSE [kind |-> b.kind, listing |-> b.listing]],
                    [p \in PathsOf(p_dir) \cup PathsOf(b.path) |-> PlainFile],
                    {1, 2})

\* two streams, whose file systems do not change
SpecTwo == InitTwo /\ [][Next]_vars

FsChange ==
    \/ \E s \in Active, n \in FsNames, i \in 0..MaxListing : FsAdd(s, n, i)
    \/ \E s \in Active, i \in 1..MaxListing : FsRemove(s, i)
    \/ \E s \in Active, n \in FsNames, i \in 1..MaxListing : FsRename(s, i, n)
    \/ \E s \in Active : FsRemovePath(s)
    \/ \E s \in Active, kind \in {"dir", "file"} : FsCreatePath(s, kind)

NextFS == Next \/ FsChange

SpecFS == InitFS /\ [][NextFS]_vars

(***************************************************************************)
(* What the claims are stated with.                                        *)
(***************************************************************************)
\* the list a resolution of the file system as it is now would give
FreshList(s) ==
    FilterSeq(Candidates(s), {c \in Range(Candidates(s)) : is_valid_filename(c)})

\* the names of the model that carry one of the five extensions, whatever the
\* case, written out one by one
QualifyingNames == {n_a_csv, n_B_CSV_GZ, n_c_csv_bz2, n_d_csv_xz, n_e_csv_lzma}
QualifyingPaths ==
    {p_FILE_CSV} \cup {p_dir \o <<"/">> \o n : n \in QualifyingNames}

\* the decoder the extension of each qualifying name stands for
NamedDecoder(path) ==
    CASE EndsWith(path, n_B_CSV_GZ) -> "gzip"
      [] EndsWith(path, n_c_csv_bz2) -> "bz2"
      [] EndsWith(path, n_d_csv_xz) -> "lzma"
      [] EndsWith(path, n_e_csv_lzma) -> "lzma"
      [] OTHER -> "open"

\* the generators that exist
Live == {g \in GenIds : gens[g].pc \notin {"off", "unused"}}

\* the rows known of the file a generator reads as its k-th
RowsOfFile(g, k) == content[gens[g].paths[k]].rows

\* the records a generator has yielded from its k-th file, in order
RecordsOfFile(g, k) ==
    LET out == gens[g].out
        at == FilterSeq([i \in 1..Len(out) |-> i],
                        {i \in 1..Len(out) : out[i].file = k})
    IN  [i \in 1..Len(at) |-> out[at[i]].rec]

\* the files a generator has read to the end of their rows
Finished(g) ==
    {k \in 1..gens[g].fi :
        /\ content[gens[g].paths[k]].end = "eof"
        /\ k = gens[g].fi => gens[g].pc \in {"run_files", "done"}}

\* a generator ended by an exception had its resolution fail, or met a row
\* the decoder or the csv reader fails on
RaisedForCause(g) ==
    gens[g].pc = "raised" =>
        \/ gens[g].fi = 0 /\ res[gens[g].stream].status # "ok"
        \/ gens[g].fi > 0 /\ content[gens[g].paths[gens[g].fi]].end = "error"

\* the distinct elements of a sequence, in the order of their first occurrence
FirstOccurrences(seq) ==
    LET at == FilterSeq([i \in 1..Len(seq) |-> i],
                        {i \in 1..Len(seq) : \A j \in 1..(i - 1) : seq[j] # seq[i]})
    IN  [i \in 1..Len(at) |-> seq[at[i]]]

(***************************************************************************)
(* The claims.                                                             *)
(***************************************************************************)
\* C1: once get_file_paths has succeeded on a stream, no later step examines
\* the file system for that stream or assigns self.file_paths again, and every
\* later resolution (a direct call, the one of schema, the one of the first
\* pull of get_records) gives the list of the first success, whatever has
\* become of the files meanwhile.
C1_Memoized ==
    [][\A s \in Active :
          /\ nResolved'[s] <= 1
          /\ file_paths[s].set =>
               /\ file_paths[s].val # <<>>
               /\ file_paths'[s] = file_paths[s]
               /\ nScans'[s] = nScans[s]
               /\ nResolved'[s] = nResolved[s]
               /\ res'[s] # res[s] =>
                    /\ res'[s].status = "ok"
                    /\ res'[s].ret = file_paths[s].val
                    /\ ~res'[s].scanned
               /\ pkWrites'[s] # pkWrites[s] =>
                    sch'[s].opened = <<file_paths[s].val[1]>>
               /\ \A g \in GenIds :
                    gens[g].stream = s /\ gens[g].pc = "created"
                                       /\ gens'[g].pc # "created" =>
                        /\ gens'[g].pc = "run_files"
                        /\ gens'[g].paths = file_paths[s].val]_vars

\* C1, its case: a resolution answered from the cache, and a first pull of
\* get_records on the cached list, while the directory would now resolve to
\* another list
C1_Witness ==
    /\ file_paths["A"].set
    /\ ~res["A"].scanned
    /\ res["A"].ret = file_paths["A"].val
    /\ fs["A"].kind = "dir"
    /\ FreshList("A") # <<>>
    /\ FreshList("A") # file_paths["A"].val
    /\ gens[1].pc = "run_files"
    /\ gens[1].paths = file_paths["A"].val
    /\ pkWrites["A"] > 0

\* C2: every record a generator yields is keyed by a header that is a row of
\* the file the record's row is in, met before that row; the header a
\* generator holds is a row of the file it is at.
C2_OwnHeader ==
    \A g \in Live :
        /\ \A i \in 1..Len(gens[g].out) :
             LET e == gens[g].out[i]
             IN  /\ \E j \in 1..(e.row - 1) : RowsOfFile(g, e.file)[j] = e.hdr
                 /\ DOMAIN e.rec \subseteq Range(e.hdr)
                 /\ RowsOfFile(g, e.file)[1] # <<>> => e.hdr = RowsOfFile(g, e.file)[1]
        /\ gens[g].headers # <<>> =>
             \E j \in 1..gens[g].ri : RowsOfFile(g, gens[g].fi)[j] = gens[g].headers

\* C2, its case: records of two files whose headers share no field name
C2_Witness ==
    \E i, j \in 1..Len(gens[1].out) :
        /\ gens[1].out[i].file = 1
        /\ gens[1].out[j].file = 2
        /\ Range(gens[1].out[i].hdr) \cap Range(gens[1].out[j].hdr) = {}

\* C3: of every file a generator has read to the end, with n >= 1 rows, the
\* records yielded are the n-1 records of rows 2..n, each zipped with row 1.
C3_FirstRowIsHeader ==
    \A g \in Live : \A k \in Finished(g) :
        LET rows == RowsOfFile(g, k)
        IN  Len(rows) >= 1 =>
                RecordsOfFile(g, k) =
                    [j \in 1..(Len(rows) - 1) |-> DictZip(rows[1], rows[j + 1])]

\* C4 as stated: every record maps h[i] to r[i] for every i < min(len(h), len(r))
\* and has no other key.
C4_Positional ==
    \A g \in Live : \A n \in 1..Len(gens[g].out) :
        LET e == gens[g].out[n]
            h == e.hdr
            r == RowsOfFile(g, e.file)[e.row]
            m == Min(Len(h), Len(r))
        IN  /\ DOMAIN e.rec = {h[i] : i \in 1..m}
            /\ \A i \in 1..m : e.rec[h[i]] = r[i]

\* C4, amended: the keys of every record are the names h[i], i < m =
\* min(len(h), len(r)); each maps to the value r[j] of the last position j < m
\* that holds the name (r[i] itself when the name occurs once); a row of any
\* length gives a record, and a generator is never ended by a mismatch.
C4_LastWins ==
    \A g \in Live :
        /\ RaisedForCause(g)
        /\ gens[g].pc = "yielded" =>
             /\ gens[g].out # <<>>
             /\ gens[g].out[Len(gens[g].out)].file = gens[g].fi
             /\ gens[g].out[Len(gens[g].out)].row = gens[g].ri
        /\ \A n \in 1..Len(gens[g].out) :
             LET e == gens[g].out[n]
                 h == e.hdr
                 r == RowsOfFile(g, e.file)[e.row]
                 m == Min(Len(h), Len(r))
             IN  /\ DOMAIN e.rec = {h[i] : i \in 1..m}
                 /\ \A i \in 1..m :
                      /\ \E j \in i..m :
                           /\ h[j] = h[i]
                           /\ \A l \in (j + 1)..m : h[l] # h[i]
                           /\ e.rec[h[i]] = r[j]
                      /\ (\A j \in 1..m : j # i => h[j] # h[i]) => e.rec[h[i]] = r[i]

\* C4, its case: a header of two equal names zipped with a row of two
\* different values, and a row longer than its header
C4_Witness ==
    /\ \E n \in 1..Len(gens[1].out) :
         /\ gens[1].out[n].hdr = <<"b", "b">>
         /\ RowsOfFile(1, gens[1].out[n].file)[gens[1].out[n].row] = <<"a", "b">>
    /\ \E n \in 1..Len(gens[1].out) :
         Len(gens[1].out[n].hdr) < Len(RowsOfFile(1, gens[1].out[n].file)[gens[1].out[n].row])

\* the evaluations of schema that got as far as opening a file
SchemaOpened == {"ok", "unbound_header", "read_error", "open_error"}

\* C5 as stated: schema opens the first path of the resolved list and no
\* other, pulls one row, and returns one text-typed field for each entry of
\* that row, in order.
C5_FieldPerEntry ==
    \A s \in Active :
        sch[s].result = "ok" =>
            /\ sch[s].opened = <<file_paths[s].val[1]>>
            /\ sch[s].pulls = 1
            /\ sch[s].fields =
                  [i \in 1..Len(content[file_paths[s].val[1]].rows[1]) |->
                      [name |-> content[file_paths[s].val[1]].rows[1][i],
                       type |-> "string"]]

\* C5, amended: schema opens the first path of the resolved list and no other
\* and pulls once from it; it reads nothing but the first row of that file;
\* when that file has a first row it returns one text-typed field for each
\* distinct entry of the row, in the order of first occurrence; when the file
\* has no row it fails on the unbound name header.
C5_FieldPerName ==
    /\ [](\A s \in Active :
            sch[s].result \in SchemaOpened =>
                /\ file_paths[s].set
                /\ sch[s].opened = <<file_paths[s].val[1]>>
                /\ sch[s].pulls = IF sch[s].result = "open_error" THEN 0 ELSE 1
                /\ sch[s].result = "unbound_header" =>
                     content[file_paths[s].val[1]] = [rows |-> <<>>, end |-> "eof"]
                /\ sch[s].result = "ok" =>
                     LET names == FirstOccurrences(content[file_paths[s].val[1]].rows[1])
                     IN  sch[s].fields =
                            [i \in 1..Len(names) |-> [name |-> names[i], type |-> "string"]])
    /\ [][\A s \in Active :
            pkWrites'[s] # pkWrites[s] =>
                \A p \in DOMAIN content :
                    content'[p] # content[p] =>
                        /\ file_paths'[s].set
                        /\ p = file_paths'[s].val[1]
                        /\ content[p] = Unread
                        /\ Len(content'[p].rows) <= 1]_vars

\* C5, its case: schema has returned for a first file whose header holds one
\* name twice, and a second file of the list has not been read at all
C5_Witness ==
    /\ sch["A"].result = "ok"
    /\ Len(file_paths["A"].val) = 2
    /\ content[file_paths["A"].val[1]].rows[1] = <<"b", "b">>
    /\ Len(sch["A"].fields) = 1
    /\ content[file_paths["A"].val[2]] = Unread

\* C6: a step in which get_file_paths examines the file system while the
\* configured path is missing ends in the error of line 52: nothing is
\* cached, no handle is acquired, no file is read, no record is yielded; an
\* evaluation of schema fails without opening a file, and a first pull of
\* get_records ends the generator with the error.
C6_MissingPath ==
    [][\A s \in Active :
          nScans'[s] # nScans[s] /\ fs[s].kind = "missing" =>
              /\ res'[s].status = "no_path"
              /\ ~file_paths'[s].set
              /\ content' = content
              /\ orphans' = orphans
              /\ \A g \in GenIds :
                   /\ gens'[g].open = gens[g].open
                   /\ gens'[g].out = gens[g].out
                   /\ gens'[g] # gens[g] => gens[g].pc = "created" /\ gens'[g].pc = "raised"
              /\ pkWrites'[s] # pkWrites[s] =>
                   /\ sch'[s].result = "no_path"
                   /\ sch'[s].opened = <<>>
                   /\ sch'[s].pulls = 0]_vars

\* C6, its case: with the configured path missing, schema has failed and the
\* first pull of a generator has failed
C6_Witness ==
    /\ fs["A"].kind = "missing"
    /\ res["A"].status = "no_path"
    /\ sch["A"].result = "no_path"
    /\ gens[1].pc = "raised"
    /\ gens[1].out = <<>>

\* C7: a resolution that examines an existing configured path (a directory of
\* any children, or a single file) returns the qualifying candidates, each
\* once and in enumeration order, warns about each of the others, and fails
\* with the error of line 66 exactly when none qualifies.
C7_Filter ==
    \A s \in Active :
        res[s].scanned /\ fs[s].kind # "missing" =>
            LET cands == Candidates(s)
                expected == FilterSeq(cands, QualifyingPaths)
                others == FilterSeq(cands, Range(cands) \ QualifyingPaths)
            IN  /\ res[s].status = IF expected = <<>> THEN "no_files" ELSE "ok"
                /\ res[s].ret = expected
                /\ res[s].status = "ok" => file_paths[s] = [set |-> TRUE, val |-> expected]
                /\ res[s].status = "no_files" => ~file_paths[s].set
                /\ res[s].warned = [i \in 1..Len(others) |-> Lower(others[i])]

\* C7, its case: a directory of an upper-case compressed child and a child
\* that is rejected
C7_Witness ==
    /\ res["A"].scanned
    /\ res["A"].status = "ok"
    /\ fs["A"].kind = "dir"
    /\ \E i \in 1..Len(res["A"].ret) : EndsWith(res["A"].ret[i], n_B_CSV_GZ)
    /\ res["A"].warned # <<>>

\* C8: no handle is open on behalf of a generator that is exhausted, ended by
\* an error, closed, or no longer pulled by its consumer, and none is left
\* open by an evaluation of schema.
C8_Released ==
    /\ orphans = 0
    /\ \A g \in Live :
         gens[g].pc \in {"done", "raised", "closed", "stopped"} => gens[g].open = {}

\* C9: a handle is opened with the decoder the extension of its path names;
\* no generator and no evaluation of schema fails unless a row of the file
\* does; two files of equal rows, whatever their containers, give equal
\* records, and the schema of a file is that of its first row.
C9_Decoder ==
    /\ \A g \in Live :
         /\ gens[g].open # {} =>
              gens[g].opener = NamedDecoder(gens[g].paths[gens[g].fi])
         /\ RaisedForCause(g)
         /\ \A j, k \in Finished(g) :
              RowsOfFile(g, j) = RowsOfFile(g, k) =>
                  RecordsOfFile(g, j) = RecordsOfFile(g, k)
    /\ \A s \in Active :
         /\ sch[s].result = "read_error" =>
              content[file_paths[s].val[1]] = [rows |-> <<>>, end |-> "error"]
         /\ sch[s].result = "ok" =>
              sch[s].fields =
                  ToDict(HeaderProperties(content[file_paths[s].val[1]].rows[1]))

\* C9, its case: a plain file and a gzip file of the same rows, both read to
\* the end, with a record of each
C9_Witness ==
    /\ gens[1].pc = "done"
    /\ Len(gens[1].paths) = 2
    /\ NamedDecoder(gens[1].paths[1]) = "open"
    /\ NamedDecoder(gens[1].paths[2]) = "gzip"
    /\ RowsOfFile(1, 1) = RowsOfFile(1, 2)
    /\ RecordsOfFile(1, 1) # <<>>
    /\ RecordsOfFile(1, 1) = RecordsOfFile(1, 2)

\* C10: the records of a generator are in the order of the files of the list
\* and, within a file, of its rows; the generator holds a handle on the file
\* it is at and on no other, so a file is opened when the one before it is
\* closed; every file before the one it is at was read to its end; and when
\* it is exhausted it has been through every file of the list: a file of no
\* row or of one row gave no record, and every file of n >= 2 rows gave a
\* record for each row after its header.
C10_Concatenation ==
    \A g \in Live :
        LET f == gens[g]
        IN  /\ \A i, j \in 1..Len(f.out) :
                 i < j => \/ f.out[i].file < f.out[j].file
                          \/ /\ f.out[i].file = f.out[j].file
                             /\ f.out[i].row < f.out[j].row
            /\ f.open = IF f.pc \in {"run_rows", "yielded", "stopped"} THEN {f.fi} ELSE {}
            /\ \A k \in 1..(f.fi - 1) : k \in Finished(g)
            /\ f.pc = "done" =>
                 /\ f.fi = Len(f.paths)
                 /\ \A k \in 1..Len(f.paths) :
                      LET rows == RowsOfFile(g, k)
                      IN  /\ k \in Finished(g)
                          /\ Len(rows) <= 1 => RecordsOfFile(g, k) = <<>>
                          /\ Len(rows) >= 2 /\ rows[1] # <<>> =>
                               Len(RecordsOfFile(g, k)) = Len(rows) - 1

\* C10, its case: an exhausted generator whose first file had no row and
\* whose second file gave two records
C10_Witness ==
    /\ gens[1].pc = "done"
    /\ Len(gens[1].paths) = 2
    /\ RowsOfFile(1, 1) = <<>>
    /\ Len(RecordsOfFile(1, 2)) = 2

\* whether sequence a is the beginning of sequence b
IsPrefix(a, b) == Len(a) <= Len(b) /\ SubSeq(b, 1, Len(a)) = a

\* the places (file of the list, row of the file) of the rows after the first
\* of each of the files paths[k], paths[k+1], ..., in order
RECURSIVE DataRowsFrom(_, _)
DataRowsFrom(paths, k) ==
    IF k > Len(paths) THEN <<>>
    ELSE [j \in 1..(Len(content[paths[k]].rows) - 1) |-> [file |-> k, row |-> j + 1]]
         \o DataRowsFrom(paths, k + 1)

\* the places of the records a generator has yielded
PlacesOf(g) ==
    [i \in 1..Len(gens[g].out) |->
        [file |-> gens[g].out[i].file, row |-> gens[g].out[i].row]]

\* the positions a generator that has ended is left at
Ended == {"done", "raised", "closed"}

\* C11: over finite files none of which begins with a blank row, a generator
\* that is created and pulled for as long as its consumer has not stopped
\* reaches exhaustion; a generator that has ended stays as it is, so it
\* yields no further record; and whatever the other generator has consumed,
\* a new generator is at no file and has yielded nothing, the records a
\* generator has yielded are the beginning of the sequence of all the rows
\* after the first of the files of the list, first file first, and those of an
\* exhausted generator are that whole sequence.
C11_FiniteFresh ==
    /\ \A g \in GenIds :
         gens[g].pc = "created" ~> gens[g].pc \in {"done", "stopped", "closed"}
    /\ [][\A g \in GenIds : gens[g].pc \in Ended => gens'[g] = gens[g]]_vars
    /\ [](\A g \in Live :
            /\ gens[g].pc # "raised"
            /\ gens[g].pc = "created" =>
                 gens[g].fi = 0 /\ gens[g].ri = 0 /\ gens[g].out = <<>>
            /\ gens[g].pc # "created" =>
                 /\ gens[g].paths = file_paths[gens[g].stream].val
                 /\ IsPrefix(PlacesOf(g), DataRowsFrom(gens[g].paths, 1))
                 /\ gens[g].pc = "done" =>
                      PlacesOf(g) = DataRowsFrom(gens[g].paths, 1))

\* C11, its case: one generator is exhausted after two records or more,
\* and the other, whatever it was doing meanwhile, has yielded its
\* first record, that of the first data row of the first file that has one
C11_Witness ==
    /\ gens[1].pc = "done"
    /\ Len(gens[1].out) >= 2
    /\ gens[2].pc = "yielded"
    /\ Len(gens[2].out) = 1
    /\ PlacesOf(2)[1] = PlacesOf(1)[1]

\* the place of the first row of rows that is not blank, Len(rows) + 1 if none
FirstNonBlank(rows) ==
    IF \E j \in 1..Len(rows) : rows[j] # <<>>
    THEN CHOOSE j \in 1..Len(rows) :
             rows[j] # <<>> /\ \A i \in 1..(j - 1) : rows[i] = <<>>
    ELSE Len(rows) + 1

\* C12: a pull that reaches a row the decoder or the csv reader fails on ends
\* the generator with that error in that very step, yields nothing in it and
\* closes the file; a generator so ended has read every row before the
\* failing one and no other, has yielded a record for each of them that
\* follows the header (none skipped, none twice), holds no handle, has opened
\* no later file, and no step changes it any more.
C12_ErrorAborts ==
    /\ [](\A g \in Live :
            gens[g].pc = "raised" /\ gens[g].fi > 0 =>
                LET rows == RowsOfFile(g, gens[g].fi)
                    h == FirstNonBlank(rows)
                IN  /\ content[gens[g].paths[gens[g].fi]].end = "error"
                    /\ gens[g].ri = Len(rows)
                    /\ gens[g].open = {}
                    /\ \A i \in 1..Len(gens[g].out) : gens[g].out[i].file <= gens[g].fi
                    /\ RecordsOfFile(g, gens[g].fi) =
                          [j \in 1..(Len(rows) - h) |-> DictZip(rows[h], rows[h + j])]
                    /\ \A k \in (gens[g].fi + 1)..Len(gens[g].paths) :
                          content[gens[g].paths[k]] = Unread)
    /\ [][\A g \in GenIds :
            /\ gens[g].pc = "raised" => gens'[g] = gens[g]
            /\ /\ gens[g].pc = "run_rows"
               /\ gens'[g] # gens[g]
               /\ content'[gens[g].paths[gens[g].fi]].end = "error"
               /\ gens[g].ri = Len(content'[gens[g].paths[gens[g].fi]].rows)
               => /\ gens'[g].pc = "raised"
                  /\ gens'[g].out = gens[g].out
                  /\ gens'[g].open = {}
                  /\ gens'[g].fi = gens[g].fi]_vars

\* C12, its case: the first of two files failed at its fourth row, after a
\* header and two records, and the second file was never read
C12_Witness ==
    /\ gens[1].pc = "raised"
    /\ gens[1].fi = 1
    /\ Len(gens[1].paths) = 2
    /\ Len(RowsOfFile(1, 1)) = 3
    /\ Len(gens[1].out) = 2
    /\ content[gens[1].paths[2]] = Unread

\* whether path p is the configured path root or a child of it
Under(p, root) == p = root \/ IsPrefix(clean_file_path(root), p)

\* every path of a sequence of paths is under the configured path of stream s
AllUnder(paths, s) ==
    \A i \in 1..Len(paths) : Under(paths[i], file_config[s].path)

\* C13: the class attribute file_paths stays the empty list; the list cached
\* by a stream, the list its last resolution returned, the file its schema
\* opened and the list each of its generators iterates hold only paths under
\* its own configured path; and a step that is not a resolution on stream t
\* (a resolution, an evaluation of schema, a pull on another stream) leaves
\* the cache of t and what the attribute lookup self.file_paths gives on t
\* as they were, and a resolution on t that examines nothing returns the
\* list t cached itself.
C13_PerInstance ==
    /\ [](/\ cls_file_paths = <<>>
          /\ \A s \in Active :
               /\ AllUnder(file_paths[s].val, s)
               /\ AllUnder(res[s].ret, s)
               /\ AllUnder(sch[s].opened, s)
               /\ res[s].status = "ok" => res[s].ret = file_paths[s].val
          /\ \A g \in Live :
               /\ AllUnder(gens[g].paths, gens[g].stream)
               /\ gens[g].paths # <<>> =>
                    gens[g].paths = file_paths[gens[g].stream].val)
    /\ [][\A t \in Active :
            nScans'[t] = nScans[t] /\ nResolved'[t] = nResolved[t] =>
                /\ file_paths'[t] = file_paths[t]
                /\ SelfFilePaths(t)' = SelfFilePaths(t)
                /\ res'[t] # res[t] =>
                     /\ res'[t].status = "ok"
                     /\ res'[t].ret = file_paths[t].val]_vars

\* C13, its case: both streams are resolved, to different lists, a generator
\* of each has yielded a record and the schema of each was evaluated
C13_Witness ==
    /\ file_paths["A"].set
    /\ file_paths["B"].set
    /\ file_paths["A"].val # file_paths["B"].val
    /\ \E g, h \in Live :
         /\ gens[g].stream = "A" /\ gens[g].out # <<>>
         /\ gens[h].stream = "B" /\ gens[h].out # <<>>
    /\ sch["A"].result = "ok"
    /\ sch["B"].result = "ok"

\* C14 as stated: the primary-key list of a stream is written at most once.
C14_WrittenOnce == \A s \in Active : pkWrites[s] <= 1

\* C14, amended: the primary-key list of a stream is written by every
\* evaluation of schema and by nothing else (no step of a generator and no
\* direct resolution writes it); it is unset until the first evaluation, and
\* from then on it holds the keys of the configuration, the empty list when
\* the configuration has none, whether or not the evaluation succeeds; a
\* later write leaves the value as it is.
C14_WrittenBySchema ==
    /\ [](\A s \in Active :
            /\ primary_keys[s].set <=> pkWrites[s] > 0
            /\ primary_keys[s].set <=> sch[s].result # "none"
            /\ ~primary_keys[s].set => primary_keys[s].val = <<>>
            /\ primary_keys[s].set =>
                 primary_keys[s].val =
                     IF file_config[s].has_keys THEN file_config[s].keys ELSE <<>>)
    /\ [][/\ gens' # gens => primary_keys' = primary_keys /\ pkWrites' = pkWrites
          /\ \A s \in Active :
               /\ primary_keys[s].set => primary_keys'[s] = primary_keys[s]
               /\ pkWrites'[s] = pkWrites[s] => primary_keys'[s] = primary_keys[s]
               /\ pkWrites'[s] \in {pkWrites[s], pkWrites[s] + 1}]_vars

\* C14, its case: the schema of each stream was evaluated twice, that of B
\* failing for want of its path, A has its configured key and B the empty
\* list, and a generator of A has yielded a record
C14_Witness ==
    /\ pkWrites["A"] = 2
    /\ pkWrites["B"] = 2
    /\ primary_keys["A"] = [set |-> TRUE, val |-> <<"a">>]
    /\ primary_keys["B"] = [set |-> TRUE, val |-> <<>>]
    /\ sch["B"].result = "no_path"
    /\ \E g \in Live : gens[g].stream = "A" /\ gens[g].out # <<>>

\* the names of the fields of a schema, in order
FieldNames(fields) == [i \in 1..Len(fields) |-> fields[i].name]

\* C15: when schema has returned for a stream, the names of its fields, in
\* order, are the names of the header a generator of the stream holds for the
\* first file and of the header of every record it yielded from the first
\* file, each name once, in the order of first occurrence.
C15_SameHeader ==
    \A g \in Live :
        sch[gens[g].stream].result = "ok" =>
            /\ gens[g].fi = 1 /\ gens[g].headers # <<>> =>
                 FieldNames(sch[gens[g].stream].fields) = FirstOccurrences(gens[g].headers)
            /\ \A i \in 1..Len(gens[g].out) :
                 gens[g].out[i].file = 1 =>
                     FieldNames(sch[gens[g].stream].fields) =
                         FirstOccurrences(gens[g].out[i].hdr)

\* whether a path is the file F.CSV or a child of a qualifying name
Qualifies(p) ==
    \/ p = p_FILE_CSV
    \/ \E n \in QualifyingNames : EndsWith(p, <<"/">> \o n)

\* a step in which a resolution is made on stream s: it examines the file
\* system, or schema is evaluated, or a generator of s is pulled first
ResolutionOn(s) ==
    \/ nScans'[s] # nScans[s]
    \/ res'[s] # res[s]
    \/ pkWrites'[s] # pkWrites[s]
    \/ \E g \in GenIds :
         gens[g].stream = s /\ gens[g].pc = "created" /\ gens'[g].pc # "created"

\* C16: a stream whose resolutions have all failed has no cached list and
\* no list of its own; every resolution on it examines the file system as it
\* is then: it fails again, leaving the cache unset, when the path is missing
\* or holds no qualifying file, and it succeeds, returning and caching the
\* qualifying files, when the path has come to hold one.
C16_Retry ==
    /\ [](\A s \in Active :
            /\ file_paths[s].set <=> nResolved[s] = 1
            /\ ~file_paths[s].set => file_paths[s].val = <<>> /\ nResolved[s] = 0
            /\ res[s].status \in {"no_path", "no_files"} =>
                 ~file_paths[s].set /\ res[s].ret = <<>> /\ res[s].scanned)
    /\ [][\A s \in Active :
            ~file_paths[s].set /\ ResolutionOn(s) =>
                LET expected == IF fs[s].kind = "missing" THEN <<>>
                                ELSE FilterSeq(Candidates(s),
                                         {c \in Range(Candidates(s)) : Qualifies(c)})
                IN  /\ nScans'[s] = nScans[s] + 1
                    /\ res'[s].scanned
                    /\ res'[s].ret = expected
                    /\ IF expected = <<>>
                       THEN /\ res'[s].status =
                                 IF fs[s].kind = "missing" THEN "no_path" ELSE "no_files"
                            /\ ~file_paths'[s].set
                       ELSE /\ res'[s].status = "ok"
                            /\ file_paths'[s] = [set |-> TRUE, val |-> expected]]_vars

\* C16, its case: the first resolution failed for want of a qualifying file
\* (schema failed with it), a file was added, and the second resolution
\* examined the directory again and succeeded
C16_Witness ==
    /\ nScans["A"] = 2
    /\ file_paths["A"].set
    /\ res["A"].scanned
    /\ res["A"].status = "ok"
    /\ sch["A"].result = "no_files"

====
